---- MODULE Spec2Model ----
(***************************************************************************)
(* polars-time, date_range.rs: datetime_range_i64 and apply_time_add.      *)
(*                                                                         *)
(* One behaviour of the model is one call of datetime_range_i64.  The      *)
(* arguments are drawn in Init; the entry actions model lines 121-165 (the *)
(* start > end return, the interval validation, the fast path, the set-up  *)
(* of the general path), the loop actions model one iteration of the       *)
(* while loops of lines 167-182, and the return actions model lines        *)
(* 184-185.                                                                *)
(*                                                                         *)
(* Duration (windows/duration.rs) is not part of the source at hand; its   *)
(* operations are modelled from the specification, on a calendar whose     *)
(* months have their real lengths and whose day lasts MsPerDay             *)
(* milliseconds, so that nanosecond timestamps stay inside TLC's integers. *)
(***************************************************************************)
EXTENDS Integers, Sequences, FiniteSets, TLC

VARIABLES start, end, interval, closed, tu, tz,
          pc, i, t, ts, size, result, calls

vars == <<start, end, interval, closed, tu, tz,
          pc, i, t, ts, size, result, calls>>

args == <<start, end, interval, closed, tu, tz>>

(***************************************************************************)
(* Bounds of the model.                                                    *)
(***************************************************************************)
\* length of a calendar day in milliseconds (scaled; the real one is 86_400_000)
MsPerDay == 4
\* fast-path family: start in -1..MaxSmallStart, end in -1..MaxSmallEnd, nsecs in 0..MaxStep
MaxSmallStart == 1
MaxSmallEnd == 10
MaxStep == 3
\* unit-consistency family: endpoints of 0..MaxMs milliseconds, steps of 1..MaxStepMs ms
MaxMs == 3
MaxStepMs == 2
\* calendar family: start of 0..MaxStartMs ms, end = start + (-1..MaxSpanMs) ms
MaxStartMs == 3
MaxSpanMs == 8
\* sizes 0..MaxUninit are among the values an uninitialised `size` is drawn from
MaxUninit == 4
\* cap on the length of ts in the loop guard
MaxLen == 6

(***************************************************************************)
(* TimeUnit, ClosedWindow, Option<&Tz>                                     *)
(***************************************************************************)
TimeUnits == {"Nanoseconds", "Microseconds", "Milliseconds"}
ClosedWindows == {"Both", "Left", "Right", "None"}
TimeZones == {"none", "DST"}

\* ticks of the unit in one millisecond
TicksPerMs(u) ==
    CASE u = "Nanoseconds" -> 1000000
      [] u = "Microseconds" -> 1000
      [] u = "Milliseconds" -> 1

\* nanoseconds in one tick of the unit
NsPerTick(u) ==
    CASE u = "Nanoseconds" -> 1
      [] u = "Microseconds" -> 1000
      [] u = "Milliseconds" -> 1000000

DayTicks(u) == MsPerDay * TicksPerMs(u)

Min(a, b) == IF a <= b THEN a ELSE b

(***************************************************************************)
(* Duration                                                                *)
(***************************************************************************)
Dur(mo, w, d, ns, neg) ==
    [months |-> mo, weeks |-> w, days |-> d, nsecs |-> ns, negative |-> neg]

is_zero(d) == d.months = 0 /\ d.weeks = 0 /\ d.days = 0 /\ d.nsecs = 0

\* interval * i: every component is scaled; a negative factor flips the sign
DurationMul(d, k) ==
    LET a == IF k < 0 THEN -k ELSE k
    IN  [months |-> d.months * a, weeks |-> d.weeks * a, days |-> d.days * a,
         nsecs |-> d.nsecs * a,
         negative |-> IF k < 0 THEN ~d.negative ELSE d.negative]

\* duration_ns / duration_us / duration_ms: the nominal length, a month counted as 28 days
duration_in(d, u) ==
    d.months * 28 * DayTicks(u) + d.weeks * 7 * DayTicks(u)
        + d.days * DayTicks(u) + d.nsecs \div NsPerTick(u)

(***************************************************************************)
(* The calendar: months of 1970 and 1971, counted from January 1970 = 0.   *)
(***************************************************************************)
MonthLen == <<31, 28, 31, 30, 31, 30, 31, 31, 30, 31, 30, 31>>

DaysInMonth(m) == MonthLen[(m % 12) + 1]

RECURSIVE CumDays(_)
CumDays(m) == IF m <= 0 THEN 0 ELSE CumDays(m - 1) + DaysInMonth(m - 1)

MonthOfDay(dn) == CHOOSE m \in 0..23 : CumDays(m) <= dn /\ dn < CumDays(m + 1)

\* add k months to a local timestamp; the day of the month is clamped to the
\* last day of the target month, the time of day is kept
add_month(tl, k, u) ==
    LET dn  == tl \div DayTicks(u)
        rem == tl % DayTicks(u)
        m   == MonthOfDay(dn)
        dom == dn - CumDays(m)
        m2  == m + k
        d2  == Min(dom, DaysInMonth(m2) - 1)
    IN  (CumDays(m2) + d2) * DayTicks(u) + rem

(***************************************************************************)
(* The timezone resolver: "none" is the naive calendar; "DST" is a zone    *)
(* whose clocks jump forward by one millisecond in the middle of the third *)
(* day, so the local times of the jump do not exist.                       *)
(***************************************************************************)
DstAt(u) == (2 * MsPerDay + MsPerDay \div 2) * TicksPerMs(u)
DstGap(u) == TicksPerMs(u)

Ok(v) == [ok |-> TRUE, val |-> v]
Err == [ok |-> FALSE, val |-> 0]

unlocalize(tutc, u, z) ==
    IF z = "none" \/ tutc < DstAt(u) THEN tutc ELSE tutc + DstGap(u)

localize(tl, u, z) ==
    IF z = "none" \/ tl < DstAt(u) THEN Ok(tl)
    ELSE IF tl < DstAt(u) + DstGap(u) THEN Err
    ELSE Ok(tl - DstGap(u))

\* Duration::add_ns / add_us / add_ms
Duration_add(d, t0, u, z) ==
    LET sign == IF d.negative THEN -1 ELSE 1
        r0 == Ok(t0)
        r1 == IF d.months > 0
              THEN localize(add_month(unlocalize(r0.val, u, z), sign * d.months, u), u, z)
              ELSE r0
        r2 == IF r1.ok /\ d.weeks > 0
              THEN localize(unlocalize(r1.val, u, z) + sign * d.weeks * 7 * DayTicks(u), u, z)
              ELSE r1
        r3 == IF r2.ok /\ d.days > 0
              THEN localize(unlocalize(r2.val, u, z) + sign * d.days * DayTicks(u), u, z)
              ELSE r2
    IN  IF r3.ok THEN Ok(r3.val + sign * (d.nsecs \div NsPerTick(u))) ELSE r3

(***************************************************************************)
(* date_range.rs                                                           *)
(***************************************************************************)
\* mutant: the interval is added once, not scaled by the step index
apply_time_add_unscaled(s, iv, k, u, z) == Duration_add(iv, s, u, z)

\* lines 10-22
apply_time_add(s, iv, k, u, z) == Duration_add(DurationMul(iv, k), s, u, z)

\* (lo..hi).step_by(n).collect(): lo, lo+n, ... while < hi
RECURSIVE step_by(_, _, _)
step_by(lo, hi, n) == IF lo >= hi THEN <<>> ELSE <<lo>> \o step_by(lo + n, hi, n)

\* mutant: the sign of the interval is not checked
interval_valid_nonzero_only(iv) == ~is_zero(iv)

\* line 125
interval_valid(iv) == ~iv.negative /\ ~is_zero(iv)

\* line 130
is_fast(iv) == iv.weeks = 0 /\ iv.months = 0 /\ iv.days = 0

\* mutant: the interval is validated before start > end is looked at
entry_branch_validate_first(s, e, iv) ==
    IF ~interval_valid(iv) THEN "invalid"
    ELSE IF s > e THEN "empty"
    ELSE IF is_fast(iv) THEN "fast"
    ELSE "general"

\* lines 121-130: the order in which the function decides what to do
entry_branch(s, e, iv) ==
    IF s > e THEN "empty"
    ELSE IF ~interval_valid(iv) THEN "invalid"
    ELSE IF is_fast(iv) THEN "fast"
    ELSE "general"

\* lines 131-145
fast_path(s, e, iv, c) ==
    LET interval_nsec == iv.nsecs
    IN  CASE c = "Both"  -> step_by(s, e, interval_nsec)
          [] c = "Left"  -> step_by(s, e - interval_nsec, interval_nsec)
          [] c = "Right" -> step_by(s + interval_nsec, e, interval_nsec)
          [] c = "None"  -> step_by(s + interval_nsec, e - interval_nsec, interval_nsec)

\* lines 148-152: the estimate, bound to the first `size`
size_estimate(s, e, iv, u) == (e - s) \div duration_in(iv, u) + 1

\* A usize.  The sizes the model counts with are held exactly; the 64-bit sizes
\* beyond the integers of the model are held by class only.
ExactSize(n) == [class |-> "exact", n |-> n]

\* the sizes beyond the model's integers of at most isize::MAX / 8 elements:
\* size * 8 bytes passes the capacity check of Vec::with_capacity
LargeSize == [class |-> "large", n |-> 0]

\* the sizes above isize::MAX / 8 elements, usize::MAX among them
OverCapacitySize == [class |-> "over capacity", n |-> 0]

\* line 154: `let size: usize;` shadows the estimate and is never given a value,
\* and lines 157 and 184 read it (rustc rejects the read, E0381).  Whatever value
\* the binding is given decides the outcome, so the value read is any size: the
\* estimate, the sizes 0..MaxUninit (below, equal to and above the number of
\* elements produced), a size beyond these that passes the capacity check, and
\* a size that does not.
uninit_size(s, e, iv, u) ==
    {ExactSize(size_estimate(s, e, iv, u))}
        \cup {ExactSize(n) : n \in 0..MaxUninit}
        \cup {LargeSize, OverCapacitySize}

\* line 157: Vec::with_capacity panics "capacity overflow" when size * 8 bytes
\* exceeds isize::MAX
capacity_overflow(sz) == sz.class = "over capacity"

\* line 157: the allocator may refuse size * 8 bytes, and the process is then
\* aborted (handle_alloc_error); it may also grant them.  The buffers of the
\* exact sizes, a few elements each, are taken to be granted.
alloc_may_fail(sz) == sz.class = "large"

\* lines 159-162
first_i(c) == IF c \in {"Both", "Left"} THEN 0 ELSE 1

\* mutant: every closed mode keeps t = end
loop_cond_inclusive(c, tv, e) == tv <= e

\* lines 169 and 176
loop_cond(c, tv, e) == IF c \in {"Both", "Right"} THEN tv <= e ELSE tv < e

\* line 184: size >= ts.len(); a size beyond the model's integers is above every length
debug_assert_holds(sz, v) == sz.class # "exact" \/ sz.n >= Len(v)

NoResult == [kind |-> "none", val |-> <<>>]
OkResult(v) == [kind |-> "Ok", val |-> v]
ComputeError == [kind |-> "ComputeError", val |-> <<>>]
AddError == [kind |-> "AddError", val |-> <<>>]
Panic == [kind |-> "panic", val |-> <<>>]
CapacityPanic == [kind |-> "capacity overflow", val |-> <<>>]
\* the process is aborted: the call neither returns nor unwinds
Abort == [kind |-> "abort", val |-> <<>>]

(***************************************************************************)
(* Arguments                                                               *)
(***************************************************************************)
Arg(s, e, iv, c, u, z) ==
    [start |-> s, end |-> e, interval |-> iv, closed |-> c, tu |-> u, tz |-> z]

\* small integers with a fixed interval of 0..MaxStep nanoseconds, either sign
SmallArgs ==
    { Arg(s, e, Dur(0, 0, 0, n, neg), c, u, "none") :
        s \in -1..MaxSmallStart, e \in -1..MaxSmallEnd, n \in 0..MaxStep,
        neg \in BOOLEAN, c \in ClosedWindows, u \in TimeUnits }

\* whole-millisecond endpoints and steps, written in each unit
UnitArgs ==
    { Arg(s * TicksPerMs(u), e * TicksPerMs(u), Dur(0, 0, 0, k * 1000000, FALSE), c, u, z) :
        s \in 0..MaxMs, e \in 0..MaxMs, k \in 1..MaxStepMs,
        c \in ClosedWindows, u \in TimeUnits, z \in TimeZones }

DayIntervals ==
    { Dur(0, 0, 1, 0, FALSE), Dur(0, 0, 2, 0, FALSE), Dur(0, 1, 0, 0, FALSE),
      Dur(0, 0, 1, 1000000, FALSE), Dur(0, 0, 1, 0, TRUE) }

DayArgs ==
    { Arg(s * TicksPerMs(u), (s + g) * TicksPerMs(u), iv, c, u, z) :
        s \in 0..MaxStartMs, g \in -1..MaxSpanMs, iv \in DayIntervals,
        c \in ClosedWindows, u \in TimeUnits, z \in TimeZones }

MonthIntervals ==
    { Dur(1, 0, 0, 0, FALSE), Dur(2, 0, 0, 0, FALSE), Dur(1, 0, 1, 0, FALSE),
      Dur(1, 0, 0, 0, TRUE) }

\* January 1, 30 and 31 to February 28, March 1, 30 and 31, April 30
MonthArgs ==
    { Arg(s * DayTicks(u), e * DayTicks(u), iv, c, u, z) :
        s \in {0, 29, 30}, e \in {58, 59, 88, 89, 119}, iv \in MonthIntervals,
        c \in ClosedWindows, u \in TimeUnits, z \in TimeZones }

Args == SmallArgs \cup UnitArgs \cup DayArgs \cup MonthArgs

(***************************************************************************)
(* The call                                                                *)
(***************************************************************************)
\* datetime_range_i64 is entered with arguments drawn from Args
Init ==
    /\ \E a \in Args :
         /\ start = a.start
         /\ end = a.end
         /\ interval = a.interval
         /\ closed = a.closed
         /\ tu = a.tu
         /\ tz = a.tz
    /\ pc = "entry"
    /\ i = 0
    /\ t = 0
    /\ ts = <<>>
    /\ size = ExactSize(0)
    /\ result = NoResult
    /\ calls = 0

\* the call is over; the result says how: a value returned (Ok or an error), a
\* panic, or the abort of the process
Finish(r) ==
    /\ pc' = "done"
    /\ result' = r

\* lines 121-123
ReturnEmpty ==
    /\ pc = "entry"
    /\ entry_branch(start, end, interval) = "empty"
    /\ Finish(OkResult(<<>>))
    /\ UNCHANGED <<args, i, t, ts, size, calls>>

\* lines 124-127
RejectInterval ==
    /\ pc = "entry"
    /\ entry_branch(start, end, interval) = "invalid"
    /\ Finish(ComputeError)
    /\ UNCHANGED <<args, i, t, ts, size, calls>>

\* lines 129-146
FastPath ==
    /\ pc = "entry"
    /\ entry_branch(start, end, interval) = "fast"
    /\ Finish(OkResult(fast_path(start, end, interval, closed)))
    /\ UNCHANGED <<args, i, t, ts, size, calls>>

\* lines 148-157: the size read fails the capacity check of Vec::with_capacity
CapacityOverflows ==
    /\ pc = "entry"
    /\ entry_branch(start, end, interval) = "general"
    /\ \E sz \in uninit_size(start, end, interval, tu) :
          /\ capacity_overflow(sz)
          /\ size' = sz
    /\ Finish(CapacityPanic)
    /\ UNCHANGED <<args, i, t, ts, calls>>

\* lines 148-157: the size read passes the capacity check and the allocator
\* refuses the buffer
AllocAborts ==
    /\ pc = "entry"
    /\ entry_branch(start, end, interval) = "general"
    /\ \E sz \in uninit_size(start, end, interval, tu) :
          /\ ~capacity_overflow(sz)
          /\ alloc_may_fail(sz)
          /\ size' = sz
    /\ Finish(Abort)
    /\ UNCHANGED <<args, i, t, ts, calls>>

\* lines 148-165: the buffer is allocated
EnterLoop ==
    /\ pc = "entry"
    /\ entry_branch(start, end, interval) = "general"
    /\ \E sz \in uninit_size(start, end, interval, tu) :
          /\ ~capacity_overflow(sz)
          /\ size' = sz
    /\ ts' = <<>>
    /\ calls' = calls + 1
    /\ LET r == apply_time_add(start, interval, first_i(closed), tu, tz)
       IN  IF r.ok
           THEN /\ t' = r.val
                /\ i' = first_i(closed) + 1
                /\ pc' = "loop"
                /\ UNCHANGED result
           ELSE /\ i' = first_i(closed)
                /\ Finish(AddError)
                /\ UNCHANGED t
    /\ UNCHANGED args

\* lines 169-173 and 176-180: one iteration
LoopPush ==
    /\ pc = "loop"
    /\ loop_cond(closed, t, end)
    /\ Len(ts) < MaxLen
    /\ ts' = Append(ts, t)
    /\ calls' = calls + 1
    /\ LET r == apply_time_add(start, interval, i, tu, tz)
       IN  IF r.ok
           THEN /\ t' = r.val
                /\ i' = i + 1
                /\ UNCHANGED <<pc, result>>
           ELSE /\ Finish(AddError)
                /\ UNCHANGED <<i, t>>
    /\ UNCHANGED <<args, size>>

\* lines 169 and 176: the condition fails
LoopExit ==
    /\ pc = "loop"
    /\ ~loop_cond(closed, t, end)
    /\ pc' = "return"
    /\ UNCHANGED <<args, i, t, ts, size, result, calls>>

\* line 184 in a build with debug assertions: the assertion fails
AssertFails ==
    /\ pc = "return"
    /\ ~debug_assert_holds(size, ts)
    /\ Finish(Panic)
    /\ UNCHANGED <<args, i, t, ts, size, calls>>

\* line 185: the assertion holds, or the build has no debug assertions
ReturnTs ==
    /\ pc = "return"
    /\ Finish(OkResult(ts))
    /\ UNCHANGED <<args, i, t, ts, size, calls>>

Next ==
    \/ ReturnEmpty
    \/ RejectInterval
    \/ FastPath
    \/ CapacityOverflows
    \/ AllocAborts
    \/ EnterLoop
    \/ LoopPush
    \/ LoopExit
    \/ AssertFails
    \/ ReturnTs

Spec == Init /\ [][Next]_vars

\* the call runs to completion: it is a sequential function
FairSpec == Spec /\ WF_vars(Next)

TypeOK ==
    /\ pc \in {"entry", "loop", "return", "done"}
    /\ closed \in ClosedWindows
    /\ tu \in TimeUnits
    /\ tz \in TimeZones
    /\ Len(ts) <= MaxLen

(***************************************************************************)
(* Properties                                                              *)
(***************************************************************************)
Valid == start <= end /\ ~interval.negative /\ ~is_zero(interval)
Fixed == interval.weeks = 0 /\ interval.months = 0 /\ interval.days = 0
Returned == pc = "done" /\ result.kind = "Ok"

StrictlyAscending(q) ==
    \A k \in 1..(Len(q) - 1) : q[k + 1] > q[k]

Elements(q) == { q[k] : k \in 1..Len(q) }

\* v, v + step, v + 2*step, ... while <= e (inclusive) or < e
RECURSIVE Progression(_, _, _, _)
Progression(v, step, e, inclusive) ==
    IF (inclusive /\ v <= e) \/ (~inclusive /\ v < e)
    THEN <<v>> \o Progression(v + step, step, e, inclusive)
    ELSE <<>>

\* the progression start + k*step trimmed by the closed mode, as the specification states it
TrimmedProgression(s, e, step, c) ==
    Progression(IF c \in {"Both", "Left"} THEN s ELSE s + step, step, e,
                c \in {"Both", "Right"})

\* C1: on the fast path with unit nanoseconds the result is the progression
\* start + k*step trimmed by closed: Both = k >= 0 and <= end, Left = k >= 0 and
\* < end, Right = k >= 1 and <= end, None = k >= 1 and < end.
C1_FastPathProgression ==
    (pc = "done" /\ Valid /\ Fixed /\ tu = "Nanoseconds")
        => result = OkResult(TrimmedProgression(start, end, interval.nsecs, closed))

\* C2: start > end returns the empty sequence, never an error, whatever the
\* closed mode, the unit and the interval (zero and negative included), and
\* without calling apply_time_add.
C2_StartAfterEndIsEmpty ==
    /\ (pc = "done" /\ start > end) => result = OkResult(<<>>)
    /\ start > end => (calls = 0 /\ ts = <<>> /\ pc \in {"entry", "done"})

C2_Witness ==
    /\ pc = "done"
    /\ start > end
    /\ is_zero(interval)
    /\ result = OkResult(<<>>)

\* C3: with start <= end, a negative or zero interval fails with the
\* "interval must be positive" ComputeError, before either path steps: nothing is
\* produced and apply_time_add is never called.
C3_NonPositiveIntervalRejected ==
    (start <= end /\ (interval.negative \/ is_zero(interval)))
        => /\ calls = 0
           /\ ts = <<>>
           /\ pc \in {"entry", "done"}
           /\ pc = "done" => result = ComputeError

C3_Witness ==
    /\ pc = "done"
    /\ start <= end
    /\ interval.negative
    /\ interval.days > 0
    /\ result = ComputeError
    /\ calls = 0

\* C4: for valid input on either path the sequence built and the sequence
\* returned are strictly ascending: each element is greater than the one before.
C4_StrictlyAscending ==
    /\ StrictlyAscending(ts)
    /\ (pc = "loop" /\ ts # <<>>) => t > ts[Len(ts)]
    /\ Returned => StrictlyAscending(result.val)

\* a returned calendar sequence over the clock change, whose steps differ in length
C4_Witness ==
    /\ Returned
    /\ ~Fixed
    /\ tz = "DST"
    /\ Len(result.val) >= 3
    /\ result.val[2] - result.val[1] # result.val[3] - result.val[2]

ToMs(q, u) == [k \in 1..Len(q) |-> q[k] \div TicksPerMs(u)]

\* C5: on the fast path, for an interval and endpoints that are whole
\* milliseconds, the ranges generated in nanoseconds, microseconds and
\* milliseconds are the same sequence once converted to a common unit.
C5_UnitConsistency ==
    (Returned /\ Valid /\ Fixed
        /\ interval.nsecs % 1000000 = 0
        /\ start % TicksPerMs(tu) = 0 /\ end % TicksPerMs(tu) = 0)
        => \A u \in TimeUnits :
              ToMs(fast_path((start \div TicksPerMs(tu)) * TicksPerMs(u),
                             (end \div TicksPerMs(tu)) * TicksPerMs(u),
                             interval, closed), u)
                  = ToMs(result.val, tu)

\* the number of elements for closed mode c: the call's own result for its own mode
CountFor(c) ==
    IF c = closed THEN Len(result.val) ELSE Len(fast_path(start, end, interval, c))

\* C6: on the fast path, when end - start is an exact multiple of the interval
\* (0 and 1 times included), |Both| = |Left| + 1 = |Right| + 1 = |None| + 2.
C6_CountRelationship ==
    (Returned /\ Valid /\ Fixed /\ (end - start) % interval.nsecs = 0)
        => /\ CountFor("Both") = CountFor("Left") + 1
           /\ CountFor("Both") = CountFor("Right") + 1
           /\ CountFor("Both") = CountFor("None") + 2

\* the claimed general-path result: apply_time_add(start, interval, k) for
\* k = k0, k0 + 1, ... up to, and without, the first value that fails the condition
ClaimKeeps(v) ==
    \/ closed \in {"Both", "Right"} /\ v <= end
    \/ closed \in {"Left", "None"} /\ v < end

RECURSIVE ClaimedFrom(_)
ClaimedFrom(k) ==
    LET r == apply_time_add(start, interval, k, tu, tz)
    IN  IF r.ok /\ ClaimKeeps(r.val) THEN <<r.val>> \o ClaimedFrom(k + 1) ELSE <<>>

ClaimedGeneral == ClaimedFrom(IF closed \in {"Right", "None"} THEN 1 ELSE 0)

\* C7: on the general path the sequence left by the loop, and the sequence
\* returned, is apply_time_add(start, interval, k) for k = 0, 1, ... (Both, Left)
\* or k = 1, 2, ... (Right, None) taken while t <= end (Both, Right) or t < end
\* (Left, None); start leads Both/Left when it passes the condition, is never in
\* Right/None, and end is never in Left/None.
C7_GeneralPathSequence ==
    (Valid /\ ~Fixed) =>
        /\ pc = "return" => ts = ClaimedGeneral
        /\ Returned =>
            /\ result.val = ClaimedGeneral
            /\ (closed = "Both" \/ (closed = "Left" /\ start < end))
                  => (result.val # <<>> /\ result.val[1] = start)
            /\ closed \in {"Right", "None"} => start \notin Elements(result.val)
            /\ closed \in {"Left", "None"} => end \notin Elements(result.val)

\* a Right range that skips start and ends on end
C7_Witness ==
    /\ Returned
    /\ Valid /\ ~Fixed
    /\ closed = "Right"
    /\ Len(result.val) >= 2
    /\ result.val[Len(result.val)] = end

\* line 154 set aside: the size read at lines 157 and 184 is the estimate
SizeIsEstimate == size = ExactSize(size_estimate(start, end, interval, tu))

\* C8: the estimate floor((end - start) / duration) + 1 is only an allocation
\* hint: no assertion fails when more elements are produced than it says.
C8_EstimateIsOnlyAHint ==
    (pc = "done" /\ Valid /\ ~Fixed /\ SizeIsEstimate)
        => result.kind # "panic"

\* the call has returned: a sequence or an error
ReturnedValue == pc = "done" /\ result.kind \in {"Ok", "ComputeError", "AddError"}

\* C9: for start <= end and a positive non-zero interval the call eventually
\* returns, a sequence or an error: the loop of the general path reaches a t
\* that fails its condition after finitely many iterations, and the function
\* then returns.  Stated of the calls whose size is the estimate.
C9_EventuallyReturns ==
    (Valid /\ []((pc # "entry" /\ ~Fixed) => SizeIsEstimate)) => <>ReturnedValue

Hours24 == Dur(0, 0, 0, DayTicks("Nanoseconds"), FALSE)

\* C10: without timezone and in nanoseconds, the calendar interval of 1 day
\* (general path) returns what the fixed interval of 24 hours (fast path) returns.
C10_PathsAgree ==
    (Returned /\ start <= end /\ tz = "none" /\ tu = "Nanoseconds"
        /\ interval = Dur(0, 0, 1, 0, FALSE))
        => result.val = fast_path(start, end, Hours24, closed)

\* the cap of the loop guard is never reached, and the sizes drawn reach the
\* number of elements produced
LoopWithinBound == Len(ts) < MaxLen /\ Len(ts) <= MaxUninit

====
